---- MODULE Spec2Model ----
\* Model of src/src/edubot/run.py: the launcher of EduBot.
\* The process imports the module (with its local-script fallback), then
\* either runs the __main__ block or is driven by a host (an interactive
\* console or importing code) that calls cli, the two runner classes,
\* their run / create_task methods and is_ipython.
EXTENDS Integers, Sequences, FiniteSets, TLC

\* ---------------------------------------------------------------- bounds
MaxRunners == 2
MaxCalls == 2
MaxTasks == 2

\* ------------------------------------------------------- Python values
\* A Python value is its type name and, for sized values, its items.
NoneVal == [t |-> "NoneType", v |-> <<>>]
Str(s) == [t |-> "str", v |-> s]
Bytes(s) == [t |-> "bytes", v |-> s]
\* os.getenv gives None (unset) or a string (possibly empty)
EnvValues == {NoneVal, Str(<<>>), Str(<<"a">>)}
\* what a caller may pass as a token
Tokens == EnvValues \cup {Bytes(<<"x">>)}
\* the value of the module constant TOKEN before line 43 has run
Unbound == [t |-> "unbound", v |-> <<>>]
\* sys.argv[1:] : empty, or the value X of one --token=X
Argvs == {<<>>, << <<>> >>, << <<"b">> >>}
\* identities of event loops: the one current at start-up and another one
Loops == {1, 2}

\* values returned to the caller of an operation
Ret(kind, id) == [kind |-> kind, id |-> id]
RetNone == Ret("None", 0)
Truthy(r) == r.kind \notin {"None", "False"}

\* the entry of sys.path added by line 35, os.path.join(dirname(filepath), "..")
ParentDir == "edubot/.."
SitePath == <<"site-packages">>
ErrorMsg == "No Discord API token could be retrieved"

\* a coroutine object: the async function, the bot it is bound to, its token
Coro(fn, bot, tok) == [fn |-> fn, bot |-> bot, tok |-> tok]
NoCoro == Coro("", 0, NoneVal)
\* one step of an operation, in program order: what is called, by which
\* runner (named by the id of its bot; 0 outside a method), on which object
Ev(ev, by, obj, tok, coro) ==
    [ev |-> ev, by |-> by, obj |-> obj, tok |-> tok, coro |-> coro]

VARIABLES
    pc,          \* "import", "main", "host", "blocked", "exit"
    onReturn,    \* where control goes when the blocking bot.run returns
    environ,     \* os.environ["DISCORD_TOKEN"]
    package,     \* __package__ is non-empty
    isMain,      \* __name__ == "__main__"
    botAt,       \* where edubot.bot can be imported from: "site" (the
                 \* initial sys.path), "local" (only ParentDir), "nowhere"
    ipython,     \* "absent", "installed" (no console), "active"
    argv,        \* command line
    sysPath,     \* sys.path
    importTries, \* executions of "from edubot.bot import EduBot"
    error,       \* the exception that ended the process, or "none"
    TOKEN,       \* module constant TOKEN
    curLoop,     \* the loop asyncio.get_event_loop() returns now
    bots,        \* number of EduBot objects constructed
    runners,     \* runner objects constructed, in order
    calls,       \* bot.run / bot.start invocations, in order
    tasks,       \* tasks created, in order; a handle is an index
    last         \* the last operation: its steps, return value, exception

vars == <<pc, onReturn, environ, package, isMain, botAt, ipython,
          argv, sysPath, importTries, error, TOKEN, curLoop, bots,
          runners, calls, tasks, last>>

envVars == <<environ, package, isMain, botAt, ipython, argv>>

\* an operation as invoked: its name, the class of the runner it constructs
\* or acts on ("" for a plain function), its token and coroutine arguments
Call(op, cls, arg, coro) == [op |-> op, cls |-> cls, arg |-> arg, coro |-> coro]
Done(call, evs, ret, raised) ==
    [op |-> call.op, cls |-> call.cls, arg |-> call.arg, coro |-> call.coro,
     events |-> evs, ret |-> ret, raised |-> raised]
NoOp == Done(Call("none", "", NoneVal, NoCoro), <<>>, RetNone, "none")

Init ==
    /\ pc = "import"
    /\ onReturn = "host"
    /\ environ \in EnvValues
    /\ package \in BOOLEAN
    /\ isMain \in BOOLEAN
    /\ botAt \in {"site", "local", "nowhere"}
    /\ ipython \in {"absent", "installed", "active"}
    /\ argv \in Argvs
    /\ sysPath = SitePath
    /\ importTries = 0
    /\ error = "none"
    /\ TOKEN = Unbound
    /\ curLoop = 1
    /\ bots = 0
    /\ runners = <<>>
    /\ calls = <<>>
    /\ tasks = <<>>
    /\ last = NoOp

\* ------------------------------------------------- module import, 26-43
\* where control goes once the module body up to line 146 has run
AfterImport == IF isMain THEN "main" ELSE "host"

\* variant: the directory is appended instead of inserted at index 0
path_append(path) == path \o <<ParentDir>>

\* line 35: sys.path.insert(0, ParentDir)
path_insert(path) == <<ParentDir>> \o path

\* line 27 succeeds; line 43 binds TOKEN
ImportOk ==
    /\ pc = "import"
    /\ botAt = "site"
    /\ importTries' = 1
    /\ TOKEN' = environ
    /\ pc' = AfterImport
    /\ UNCHANGED <<onReturn, envVars, sysPath, error, curLoop, bots,
                   runners, calls, tasks, last>>

\* line 27 raises ImportError, __package__ is empty: lines 31-36
ImportFallback ==
    /\ pc = "import"
    /\ botAt # "site"
    /\ ~package
    /\ sysPath' = path_insert(sysPath)
    /\ importTries' = 2
    /\ IF botAt = "local"
          THEN /\ TOKEN' = environ
               /\ pc' = AfterImport
               /\ error' = "none"
          ELSE /\ TOKEN' = TOKEN
               /\ pc' = "exit"
               /\ error' = "ImportError#2"
    /\ UNCHANGED <<onReturn, envVars, curLoop, bots, runners, calls,
                   tasks, last>>

\* line 27 raises ImportError, __package__ is set: line 41, raise e
ImportReraise ==
    /\ pc = "import"
    /\ botAt # "site"
    /\ package
    /\ importTries' = 1
    /\ error' = "ImportError#1"
    /\ pc' = "exit"
    /\ UNCHANGED <<onReturn, envVars, sysPath, TOKEN, curLoop, bots,
                   runners, calls, tasks, last>>

\* --------------------------------------------------- BotRunner, 46-63
\* variant: the isinstance test is missing
validate_token_any_sized(token) == Len(token.v) # 0

\* variant: the length test is missing
validate_token_any_str(token) == token.t = "str"

\* line 63: isinstance(token, str) and len(token) != 0
validate_token(token) == token.t = "str" /\ Len(token.v) # 0

\* variant: the blocking runner calls the asynchronous entry point
BotRunner_run_start(self, token) ==
    <<Ev("bot.start", self.bot, self.bot, token, NoCoro)>>

\* lines 54-56: self.bot.run(token)
BotRunner_run(self, token) == <<Ev("bot.run", self.bot, self.bot, token, NoCoro)>>

\* ---------------------------------------- InteractiveBotRunner, 66-117
\* variant: the task goes to whatever loop is current at the call
create_task_ambient(self, coroutine) ==
    <<Ev("loop.create_task", self.bot, curLoop, NoneVal, coroutine)>>

\* lines 109-117: return self.loop.create_task(coroutine)
create_task(self, coroutine) ==
    <<Ev("loop.create_task", self.bot, self.loop, NoneVal, coroutine)>>

\* the handle create_task returns: the task it appended
create_task_ret == Ret("Task", Len(tasks) + 1)

\* variant: run is not overridden, the inherited blocking run is used
InteractiveBotRunner_run_inherited(self, token) ==
    <<Ev("bot.run", self.bot, self.bot, token, NoCoro)>>

\* lines 99-107: self.create_task(self.bot.start(token))
InteractiveBotRunner_run(self, token) ==
    <<Ev("bot.start", self.bot, self.bot, token, NoCoro)>>
        \o create_task(self, Coro("start", self.bot, token))

\* lines 99-107 have no return statement: the call evaluates to None
InteractiveBotRunner_run_ret == RetNone

\* the method self.run resolves to
run(self, token) ==
    IF self.cls = "InteractiveBotRunner"
        THEN InteractiveBotRunner_run(self, token)
        ELSE BotRunner_run(self, token)

\* lines 49-52; self already carries what a subclass constructor set
BotRunner_init(self, token) ==
    IF ~validate_token(token)
        THEN <<Ev("AssertionError", self.bot, 0, token, NoCoro)>>
        ELSE <<Ev("validate_token", self.bot, 0, token, NoCoro),
               Ev("EduBot", self.bot, self.bot, NoneVal, NoCoro)>>
                 \o run(self, token)

\* lines 94-97
InteractiveBotRunner_init(self, token) ==
    <<Ev("get_event_loop", self.bot, self.loop, NoneVal, NoCoro),
      Ev("set_debug", self.bot, self.loop, NoneVal, NoCoro)>>
        \o BotRunner_init(self, token)

\* the object under construction: a BotRunner has no loop attribute (0)
NewSelf(cls) ==
    [cls |-> cls,
     loop |-> IF cls = "InteractiveBotRunner" THEN curLoop ELSE 0,
     bot |-> bots + 1]

construct(cls, token) ==
    IF cls = "InteractiveBotRunner"
        THEN InteractiveBotRunner_init(NewSelf(cls), token)
        ELSE BotRunner_init(NewSelf(cls), token)

\* ------------------------------------------------------- cli, 120-129
\* variant: the option is ignored
cli_token_env(args, default) == default

\* line 121: the option's value, or default=TOKEN when the flag is absent
cli_token(args, default) == IF args = <<>> THEN default ELSE Str(args[1])

\* --------------------------------------------------- is_ipython, 132-145
\* IPython.get_ipython(): the active shell, or None outside a console
get_ipython(ipy) == IF ipy = "active" THEN Ret("InteractiveShell", 1) ELSE RetNone

\* variant: the ImportError of line 141 is not caught
is_ipython_uncaught(ipy) ==
    IF ipy = "absent"
        THEN [ret |-> RetNone, raised |-> "ImportError"]
        ELSE [ret |-> get_ipython(ipy), raised |-> "none"]

\* lines 140-145
is_ipython(ipy) ==
    IF ipy = "absent"
        THEN [ret |-> Ret("False", 0), raised |-> "none"]
        ELSE [ret |-> get_ipython(ipy), raised |-> "none"]

\* ------------------------------------------- effects of an operation
Raised(evs) == evs # <<>> /\ evs[Len(evs)].ev = "AssertionError"
Blocks(evs) == \E i \in DOMAIN evs : evs[i].ev = "bot.run"
Built(evs) == \E i \in DOMAIN evs : evs[i].ev = "EduBot"
Pick(evs, names) == SelectSeq(evs, LAMBDA e : e.ev \in names)

NewCalls(op, evs) ==
    LET s == Pick(evs, {"bot.run", "bot.start"})
    IN  [i \in 1..Len(s) |->
            [bot |-> s[i].obj,
             entry |-> IF s[i].ev = "bot.run" THEN "run" ELSE "start",
             tok |-> s[i].tok,
             op |-> op]]

NewTasks(evs) ==
    LET s == Pick(evs, {"loop.create_task"})
    IN  [i \in 1..Len(s) |->
            [loop |-> s[i].obj, coro |-> s[i].coro, by |-> s[i].by,
             state |-> "pending"]]

\* Apply the steps evs of the operation call; control goes to retTo when
\* the operation returns, and an exception ends the process iff fatal.
Perform(call, evs, ret, retTo, fatal) ==
    /\ bots' = bots + Len(Pick(evs, {"EduBot"}))
    /\ calls' = calls \o NewCalls(call.op, evs)
    /\ tasks' = tasks \o NewTasks(evs)
    /\ runners' = IF Built(evs)
                     THEN Append(runners, NewSelf(call.cls)) ELSE runners
    /\ last' = Done(call, evs, IF Raised(evs) THEN RetNone ELSE ret,
                    IF Raised(evs) THEN ErrorMsg ELSE "none")
    /\ pc' = IF Raised(evs) THEN (IF fatal THEN "exit" ELSE "host")
             ELSE IF Blocks(evs) THEN "blocked" ELSE retTo
    /\ onReturn' = IF ~Raised(evs) /\ Blocks(evs) THEN retTo ELSE onReturn
    /\ error' = IF Raised(evs) /\ fatal THEN "AssertionError" ELSE error
    /\ UNCHANGED <<envVars, sysPath, importTries, TOKEN, curLoop>>

Room == Len(runners) < MaxRunners /\ Len(calls) < MaxCalls /\ Len(tasks) < MaxTasks

\* ------------------------------------------------- __main__, 148-150
ScriptMain ==
    /\ pc = "main"
    /\ LET interactive == Truthy(is_ipython(ipython).ret)
           cls == IF interactive THEN "InteractiveBotRunner" ELSE "BotRunner"
       IN  Perform(Call("__main__", cls, TOKEN, NoCoro), construct(cls, TOKEN),
                   Ret("runner", Len(runners) + 1),
                   IF interactive THEN "host" ELSE "exit", ~interactive)

\* ------------------------------------------------ calls made by a host
\* cli(), lines 120-129; click parses argv, and exits when cli returns
Cli ==
    /\ pc = "host"
    /\ Room
    /\ LET token == cli_token(argv, TOKEN)
       IN  Perform(Call("cli", "BotRunner", token, NoCoro),
                   construct("BotRunner", token),
                   Ret("runner", Len(runners) + 1), "exit", TRUE)

\* BotRunner(token), lines 49-52
NewBotRunner ==
    /\ pc = "host"
    /\ Room
    /\ \E token \in Tokens :
        Perform(Call("BotRunner", "BotRunner", token, NoCoro),
                construct("BotRunner", token),
                Ret("runner", Len(runners) + 1), "host", FALSE)

\* InteractiveBotRunner(token), lines 94-97
NewInteractiveBotRunner ==
    /\ pc = "host"
    /\ Room
    /\ \E token \in Tokens :
        Perform(Call("InteractiveBotRunner", "InteractiveBotRunner", token,
                     NoCoro),
                construct("InteractiveBotRunner", token),
                Ret("runner", Len(runners) + 1), "host", FALSE)

\* runner.run(token) on an existing runner, lines 54-56 and 99-107
DirectRun ==
    /\ pc = "host"
    /\ Len(calls) < MaxCalls /\ Len(tasks) < MaxTasks
    /\ \E r \in DOMAIN runners, token \in Tokens :
        Perform(Call("run", runners[r].cls, token, NoCoro),
                run(runners[r], token),
                IF runners[r].cls = "InteractiveBotRunner"
                    THEN InteractiveBotRunner_run_ret ELSE RetNone,
                "host", FALSE)

\* runner.create_task(c) for a coroutine c = bot.dm(user, "Hello!") of any
\* bot the host holds, lines 109-117 (usage: lines 78-80)
CreateTask ==
    /\ pc = "host"
    /\ Len(tasks) < MaxTasks
    /\ \E r \in DOMAIN runners, b \in 1..bots :
        /\ runners[r].cls = "InteractiveBotRunner"
        /\ LET c == Coro("dm", b, NoneVal)
           IN  Perform(Call("create_task", runners[r].cls, NoneVal, c),
                       create_task(runners[r], c),
                       create_task_ret, "host", FALSE)

\* is_ipython(), lines 132-145
IsIpython ==
    /\ pc = "host"
    /\ last' = Done(Call("is_ipython", "", NoneVal, NoCoro), <<>>,
                    is_ipython(ipython).ret, is_ipython(ipython).raised)
    /\ UNCHANGED <<pc, onReturn, envVars, sysPath, importTries, error, TOKEN,
                   curLoop, bots, runners, calls, tasks>>

\* ------------------------------------------------------- environment
\* the blocking bot.run(token) of line 56 returns (the bot disconnected)
BotStops ==
    /\ pc = "blocked"
    /\ pc' = onReturn
    /\ UNCHANGED <<onReturn, envVars, sysPath, importTries, error, TOKEN,
                   curLoop, bots, runners, calls, tasks, last>>

\* the host's event loop starts a pending task; it can only do so while
\* no launcher code is on the stack
LoopStep ==
    /\ pc = "host"
    /\ \E i \in DOMAIN tasks :
        /\ tasks[i].state = "pending"
        /\ tasks' = [tasks EXCEPT ![i].state = "started"]
    /\ UNCHANGED <<pc, onReturn, envVars, sysPath, importTries, error, TOKEN,
                   curLoop, bots, runners, calls, last>>

\* the host installs another loop (asyncio.set_event_loop), so that a later
\* asyncio.get_event_loop() no longer returns the one line 95 saw
SetEventLoop ==
    /\ pc = "host"
    /\ \E l \in Loops \ {curLoop} : curLoop' = l
    /\ UNCHANGED <<pc, onReturn, envVars, sysPath, importTries, error, TOKEN,
                   bots, runners, calls, tasks, last>>

Next ==
    \/ ImportOk
    \/ ImportFallback
    \/ ImportReraise
    \/ ScriptMain
    \/ Cli
    \/ NewBotRunner
    \/ NewInteractiveBotRunner
    \/ DirectRun
    \/ CreateTask
    \/ IsIpython
    \/ BotStops
    \/ LoopStep
    \/ SetEventLoop

Spec == Init /\ [][Next]_vars

\* =============================================================== claims
IsNonEmptyString(x) == x.t = "str" /\ x.v # <<>>
Constructors == {"BotRunner", "InteractiveBotRunner", "cli", "__main__"}
\* the token the command line selects: X of --token=X, else the environment
Selected == IF argv = <<>> THEN environ ELSE Str(argv[1])
CallsOf(cs, b) == {i \in DOMAIN cs : cs[i].bot = b}
LoopOf(rs, b) == (CHOOSE r \in {rs[i] : i \in DOMAIN rs} : r.bot = b).loop

\* C1: constructing a BotRunner with a non-empty string token passes
\* validation, then constructs exactly one EduBot, then calls that bot's
\* blocking run exactly once with that token, and never calls start.
Thm_C1 ==
    (last.op \in Constructors /\ last.cls = "BotRunner"
        /\ IsNonEmptyString(last.arg)) =>
        /\ last.raised = "none"
        /\ Len(last.events) = 3
        /\ last.events[1].ev = "validate_token"
        /\ last.events[1].tok = last.arg
        /\ last.events[2].ev = "EduBot"
        /\ LET b == last.events[2].obj
           IN  /\ last.events[3] = Ev("bot.run", b, b, last.arg, NoCoro)
               /\ Cardinality(CallsOf(calls, b)) = 1
               /\ \A i \in CallsOf(calls, b) :
                    calls[i].entry = "run" /\ calls[i].tok = last.arg
               /\ \A i \in DOMAIN tasks : tasks[i].by # b

Witness_C1 ==
    /\ last.op = "BotRunner"
    /\ last.arg = Str(<<"a">>)
    /\ pc = "blocked"
    /\ bots = 1
    /\ calls = <<[bot |-> 1, entry |-> "run", tok |-> Str(<<"a">>),
                  op |-> "BotRunner"]>>

\* C2: constructing either runner with a token that is empty or not a
\* string raises the assertion error with the fixed message; no EduBot is
\* constructed, neither run nor start is called, no task is scheduled.
Thm_C2 ==
    [][(last'.op \in Constructors /\ ~IsNonEmptyString(last'.arg)
            /\ last' # last) =>
        /\ last'.raised = ErrorMsg
        /\ \A i \in DOMAIN last'.events :
              last'.events[i].ev \notin
                  {"EduBot", "bot.run", "bot.start", "loop.create_task"}
        /\ bots' = bots
        /\ runners' = runners
        /\ calls' = calls
        /\ tasks' = tasks
        /\ pc' # "blocked"]_vars

Witness_C2 ==
    /\ last.op = "InteractiveBotRunner"
    /\ last.arg = Bytes(<<"x">>)
    /\ last.raised = ErrorMsg
    /\ bots = 0

\* C3: InteractiveBotRunner.run does not block: when it (or the constructor
\* calling it) returns for a valid token, control is back with the caller,
\* the bot's start routine is exactly one new, still pending task on the
\* runner's loop, and the bot's blocking run was never called.
Thm_C3 ==
    [][(last'.cls = "InteractiveBotRunner"
            /\ last'.op \in (Constructors \cup {"run"})
            /\ IsNonEmptyString(last'.arg)
            /\ (last' # last \/ calls' # calls)) =>
        /\ last'.raised = "none"
        /\ pc' = "host"
        /\ Len(last'.events) > 0
        /\ LET b == last'.events[1].by
           IN  /\ tasks' = Append(tasks,
                      [loop |-> LoopOf(runners', b),
                       coro |-> Coro("start", b, last'.arg),
                       by |-> b, state |-> "pending"])
               /\ \A i \in CallsOf(calls', b) : calls'[i].entry = "start"
               /\ Len(calls') = Len(calls) + 1
               /\ calls'[Len(calls')].bot = b
               /\ calls'[Len(calls')].tok = last'.arg]_vars

Witness_C3 ==
    /\ last.op = "InteractiveBotRunner"
    /\ last.arg = Str(<<"a">>)
    /\ pc = "host"
    /\ Len(tasks) = 1
    /\ tasks[1].state = "pending"
    /\ tasks[1].coro.fn = "start"

\* C4: every task a runner creates is on the loop that runner acquired at
\* construction, whatever loop is current at the call, and create_task
\* returns the handle of the task holding the coroutine it was given.
Thm_C4 ==
    /\ \A i \in DOMAIN tasks :
          \E r \in DOMAIN runners :
              /\ runners[r].bot = tasks[i].by
              /\ runners[r].cls = "InteractiveBotRunner"
              /\ runners[r].loop = tasks[i].loop
    /\ \A i, j \in DOMAIN tasks :
          tasks[i].by = tasks[j].by => tasks[i].loop = tasks[j].loop
    /\ last.op = "create_task" =>
          /\ last.raised = "none"
          /\ last.ret.kind = "Task"
          /\ last.ret.id \in DOMAIN tasks
          /\ tasks[last.ret.id].coro = last.coro

Witness_C4 ==
    /\ last.op = "create_task"
    /\ last.ret.id = 2
    /\ tasks[1].coro.fn = "start"
    /\ tasks[2].coro.fn = "dm"
    /\ tasks[2].by = tasks[1].by
    /\ curLoop # tasks[2].loop

\* C5: cli constructs a BotRunner with the environment token when no
\* --token flag is given and with X when --token=X is given, and that
\* token is the one that reaches the bot's blocking run.
Thm_C5 ==
    last.op = "cli" =>
        /\ last.cls = "BotRunner"
        /\ last.arg = Selected
        /\ last.raised = "none" =>
              /\ calls # <<>>
              /\ calls[Len(calls)].entry = "run"
              /\ calls[Len(calls)].op = "cli"
              /\ calls[Len(calls)].tok = Selected

Witness_C5 ==
    /\ last.op = "cli"
    /\ argv = << <<"b">> >>
    /\ environ = Str(<<"a">>)
    /\ pc = "blocked"
    /\ calls[Len(calls)].tok = Str(<<"b">>)

\* C6: is_ipython never raises; it returns False when IPython cannot be
\* imported, the falsy None of get_ipython() when no console is active,
\* and a truthy value only when a console is active.
Thm_C6 ==
    last.op = "is_ipython" =>
        /\ last.raised = "none"
        /\ ipython = "absent" => last.ret = Ret("False", 0)
        /\ ipython = "installed" => last.ret = RetNone
        /\ last.ret.kind \notin {"None", "False"} <=> ipython = "active"

Witness_C6 ==
    /\ last.op = "is_ipython"
    /\ ipython = "absent"
    /\ last.ret = Ret("False", 0)

\* C7: started as a script, the launcher constructs the interactive runner
\* when a console is detected, and otherwise the blocking runner with the
\* token the command line selects (--token=X overriding the environment).
Claim_C7 ==
    last.op = "__main__" =>
        IF ipython = "active"
            THEN last.cls = "InteractiveBotRunner"
            ELSE last.cls = "BotRunner" /\ last.arg = Selected

\* C8: when the first import of the bot package succeeds sys.path is left
\* alone; when it fails inside a package the first ImportError ends the
\* process with sys.path unchanged; when it fails in a local script the
\* parent directory is put in front of sys.path and the import is retried
\* exactly once, a second failure ending the process.
Thm_C8 ==
    pc # "import" =>
        /\ botAt = "site" =>
              /\ sysPath = SitePath
              /\ importTries = 1
              /\ error \notin {"ImportError#1", "ImportError#2"}
        /\ (botAt # "site" /\ package) =>
              /\ sysPath = SitePath
              /\ importTries = 1
              /\ error = "ImportError#1"
              /\ pc = "exit"
        /\ (botAt # "site" /\ ~package) =>
              /\ sysPath = <<ParentDir>> \o SitePath
              /\ importTries = 2
              /\ botAt = "local" =>
                    error \notin {"ImportError#1", "ImportError#2"}
              /\ botAt = "nowhere" => error = "ImportError#2" /\ pc = "exit"

Witness_C8 ==
    /\ botAt = "local"
    /\ ~package
    /\ pc = "host"
    /\ Head(sysPath) = ParentDir
    /\ TOKEN = environ

\* C9 as stated: every token that reaches bot.run or bot.start, through
\* construction or a direct call of run, is a non-empty string.
Claim_C9 == \A i \in DOMAIN calls : IsNonEmptyString(calls[i].tok)

\* C9 amended: every token that reaches bot.run or bot.start during the
\* construction of a runner is a non-empty string.
Thm_C9 ==
    \A i \in DOMAIN calls :
        calls[i].op \in Constructors => IsNonEmptyString(calls[i].tok)

Witness_C9 ==
    \E i, j \in DOMAIN calls :
        /\ calls[i].op = "InteractiveBotRunner"
        /\ calls[j].op = "run"
        /\ calls[j].bot = calls[i].bot
        /\ calls[j].tok = Str(<<>>)

\* C10: InteractiveBotRunner.run returns the task handle create_task
\* produced for the bot's start routine.
Claim_C10 ==
    (last.op = "run" /\ last.cls = "InteractiveBotRunner") =>
        /\ last.ret.kind = "Task"
        /\ last.ret.id \in DOMAIN tasks
        /\ tasks[last.ret.id].coro.fn = "start"
        /\ tasks[last.ret.id].coro.tok = last.arg
====
